---- MODULE Spec2Model ----
(***************************************************************************)
(* Challenge-instance routing of the Cerberus CTF platform.                *)
(*                                                                         *)
(* Part I models scripts/generate-nginx-blocks.sh: the nginx               *)
(* sites-available / sites-enabled directories, the template file, the     *)
(* command dispatch (generate, remove, watch, sync, init) and the Docker   *)
(* event loop, against a container runtime that emits lifecycle events.    *)
(*                                                                         *)
(* Part II models the instance control plane (Registry, Instance Manager,  *)
(* TTL sweep) and Part III the terminal bridge; their code lives in the    *)
(* backend service, so both are written from the specification.            *)
(***************************************************************************)
EXTENDS Naturals, Integers, Sequences, FiniteSets, TLC

(***************************************************************************)
(* Bounds of the model.                                                    *)
(***************************************************************************)
\* Largest value of the wall clock read by `date -Iseconds`.
MaxClock == 1
\* Docker events emitted and not yet read by the watch loop.
MaxEvents == 2
\* Largest value of the control plane's clock.
MaxNow == 2
\* The default instance TTL (DEFAULT_INSTANCE_TTL), in ticks of that clock.
InstanceTtl == 1
\* Ticks a canceled pump is given to close its end before it is torn down.
GracePeriod == 1
\* WebSockets one drawer creates.
MaxSockets == 3
\* Keystrokes and resizes of one drawer.
MaxFrames == 3
\* Calls of generate and remove that arrive in one debounce window.
MaxCalls == 3
\* Reloads of nginx by the maintenance script.
MaxReloads == 2

(***************************************************************************)
(* Part I.  The universe of the script.                                    *)
(***************************************************************************)
\* A container id is <<first 12 characters, remaining characters>>.
Cids == { <<"abc123abc123", "aa">>, <<"def456def456", "bb">> }

\* The address the runtime gave a container on the challenge network.
AddressOf(c) ==
    IF c[1] = "abc123abc123" THEN [ip |-> "10.0.0.5", port |-> 8080]
                             ELSE [ip |-> "10.0.0.6", port |-> 9000]

\* The challenges a container can be an instance of: `generate` takes the name
\* as an argument, and two teams' containers may run the same challenge.
ChallengeNames == {"pwn-101", "web-200"}

\* A name a caller can pass as well: it holds a newline.
BreakingNames == {"pwn\n101"}

\* The names sed cannot take as a replacement: a newline ends the s command
\* early ("unterminated `s' command"), sed prints nothing and exits nonzero.
BreaksSed(challenge_name) == challenge_name \in BreakingNames

\* local hostname="${challenge_name}.challenges.ctf.com"
HostnameOf(challenge_name) == <<challenge_name, ".challenges.ctf.com">>

Hostnames == { HostnameOf(n) : n \in ChallengeNames }

NoCid == <<"", "">>
NoHost == <<"", "">>

\* ${container_id:0:12}
ShortId(container_id) == container_id[1]

\* The here-document of create_template, cut into literal text and the six
\* placeholders; only the lines that carry a placeholder, the proxy headers and
\* the health endpoint are kept.
Template ==
    << <<"lit", "# Challenge Instance: ">>, <<"ph", "challenge_name">>,
       <<"lit", "# Generated: ">>,          <<"ph", "timestamp">>,
       <<"lit", "# Container: ">>,          <<"ph", "container_id">>,
       <<"lit", "server { listen 80; server_name ">>, <<"ph", "hostname">>,
       <<"lit", "; location / { proxy_pass http://">>, <<"ph", "container_ip">>,
       <<"lit", ":">>,                      <<"ph", "container_port">>,
       <<"lit", "/; proxy_set_header Upgrade $http_upgrade; proxy_set_header Connection upgrade; }">>,
       <<"lit", " location /health { access_log off; return 200 healthy; }">>,
       <<"lit", " access_log /var/log/nginx/challenges/">>, <<"ph", "hostname">>,
       <<"lit", "_access.log; error_log /var/log/nginx/challenges/">>, <<"ph", "hostname">>,
       <<"lit", "_error.log; }">> >>

NoTemplate == << >>

\* sed -e "s/{hostname}/.../g" ... "$TEMPLATE_FILE": every placeholder of the
\* template file is replaced by the value the descriptor gives it.
SedRender(template, d) ==
    [ i \in 1..Len(template) |->
        IF template[i][1] = "lit" THEN <<"lit", template[i][2]>>
        ELSE CASE template[i][2] = "hostname"       -> <<"host", d.hostname>>
               [] template[i][2] = "container_ip"   -> <<"ip", d.container_ip>>
               [] template[i][2] = "container_port" -> <<"port", d.container_port>>
               [] template[i][2] = "challenge_name" -> <<"name", d.challenge_name>>
               [] template[i][2] = "timestamp"      -> <<"ts", d.timestamp>>
               [] OTHER                             -> <<"id", ShortId(d.container_id)>> ]

\* The value a rendered text carries at its first placeholder of a kind.
FieldOf(text, kind) ==
    LET hits == { i \in 1..Len(text) : text[i][1] = kind }
    IN  IF hits = {} THEN "" ELSE text[CHOOSE i \in hits : \A j \in hits : i <= j][2]

HasField(text, kind) == \E i \in 1..Len(text) : text[i][1] = kind

\* A directory entry is removed: rm -f.
RemoveFile(dir, f) == [ g \in (DOMAIN dir) \ {f} |-> dir[g] ]

\* A file is written or overwritten: > "$conf_file".
WriteFile(dir, f, text) == [ g \in (DOMAIN dir) \cup {f} |-> IF g = f THEN text ELSE dir[g] ]

EmptyDir == [ g \in {} |-> << >> ]

\* What `nginx -t` can answer about the configuration on disk.
NginxOutcomes == {"ok", "test_failed"}

ContainerStatuses == {"none", "created", "running", "stopped", "exited"}
EventActions == {"create", "start", "stop", "die"}

VARIABLES
    \* ---- Part I: the script and the container runtime
    sites_available,   \* NGINX_SITES_AVAILABLE: hostname -> text of <hostname>.conf
    sites_enabled,     \* NGINX_SITES_ENABLED: hostnames with a symlink <hostname>.conf
    template_file,     \* text of TEMPLATE_FILE, NoTemplate while it does not exist
    clock,             \* wall clock
    container,         \* runtime: container id -> status
    events,            \* `docker events` output not yet read by the watch loop
    watching,          \* a `watch` process is reading the event stream
    missed,            \* containers with an event emitted while nobody was watching
    last,              \* the last command run or event handled, and how it ended
    \* ---- Part II: the instance control plane
    registry,          \* Registry: instance id -> row
    routes,            \* instance ids whose ProxyRecord is published and enabled
    runtime,           \* container runtime: instance id -> status of its container
    now,               \* the control plane's clock
    reply,             \* the last control-plane operation and its result
    \* ---- Part III: the terminal bridge
    session,           \* Terminal Bridge: session id -> TerminalSession
    \* ---- Part IV: the TerminalDrawer component and its sockets
    isOpen,            \* the isOpen prop
    term,              \* terminalInstanceRef.current is a terminal
    wsRef,             \* wsRef.current: a socket, or NoSocket for null
    socket,            \* socket -> readyState, and whether it is failing
    handlers,          \* sockets whose onData handler is registered on the terminal
    isConnected,       \* useState isConnected
    isLoading,         \* useState isLoading
    error,             \* useState error is not null
    wire,              \* socket -> frames sent by the client, not yet read by the server
    applied,           \* socket -> what the inbound pump did to the container, in order
    nsent,             \* input events (keystrokes, resizes) so far
    \* ---- Part V: invocations of generate-nginx-blocks.sh that overlap
    proc,              \* process -> the command it runs and where it stands in it
    lastIssued,        \* hostname -> the command of the call issued last for it
    nreloads,          \* runs of `systemctl reload nginx` so far
    ncalls,            \* calls issued so far
    \* ---- Part VI: scripts/maintenance-mode.sh
    flag,              \* MAINTENANCE_FILE exists
    webroot,           \* the directory of MAINTENANCE_FILE exists
    nginx_active,      \* systemctl is-active nginx
    nginx_reloads,     \* reloads of nginx by the maintenance script
    mlast              \* the last run of the maintenance script and how it ended

scriptVars == <<sites_available, sites_enabled, template_file,
                clock, container, events, watching, missed, last>>

backendVars == <<registry, routes, runtime, now, reply>>

bridgeVars == <<session>>

drawerVars == <<isOpen, term, wsRef, socket, handlers, isConnected, isLoading,
               error, wire, applied, nsent>>

procVars == <<proc, lastIssued, nreloads, ncalls>>

maintVars == <<flag, webroot, nginx_active, nginx_reloads, mlast>>

vars == <<scriptVars, backendVars, bridgeVars, drawerVars, procVars, maintVars>>

NoOp == [op |-> "none", cid |-> NoCid, host |-> NoHost, action |-> "none",
         exit |-> 0, test |-> "none", reloads |-> 0]

ScriptInit ==
    /\ sites_available = EmptyDir
    /\ sites_enabled = {}
    /\ template_file = NoTemplate
    /\ clock = 0
    /\ container = [c \in Cids |-> "none"]
    /\ events = << >>
    /\ watching = FALSE
    /\ missed = {}
    /\ last = NoOp

(***************************************************************************)
(* Part I.  scripts/generate-nginx-blocks.sh                               *)
(***************************************************************************)
\* get_container_info: the body is `echo ""`, whatever the container.
GetContainerInfo(container_id) == ""

\* get_hostname_from_container: the body is `echo ""`, whatever the container.
\* get_hostname_from_container answering with a hostname it did not look up.
GetHostnameFromContainerFixed(container_id) == HostnameOf("pwn-101")

GetHostnameFromContainer(container_id) == ""

\* A file with nothing in it: what `> "$conf_file"` leaves when sed fails.
EmptyFile == << >>

\* generate_for_container: renders the template into sites-available and
\* force-links it into sites-enabled.  Nothing is tested before the write: an
\* existing file of that name is overwritten and `ln -sf` replaces the link.
\* The status of sed is not looked at: when sed fails the file is left empty
\* and is linked all the same.
GenerateForContainer(tpl, container_id, container_ip, container_port, challenge_name) ==
    LET hostname == HostnameOf(challenge_name)
        d == [hostname |-> hostname, container_ip |-> container_ip,
              container_port |-> container_port, challenge_name |-> challenge_name,
              timestamp |-> clock, container_id |-> container_id]
        text == IF BreaksSed(challenge_name) THEN EmptyFile ELSE SedRender(tpl, d)
    IN  /\ sites_available' = WriteFile(sites_available, hostname, text)
        /\ sites_enabled' = sites_enabled \cup {hostname}

\* remove_for_hostname: rm -f of both paths; rm -f succeeds on a missing file.
RemoveForHostname(hostname) ==
    /\ sites_available' = RemoveFile(sites_available, hostname)
    /\ sites_enabled' = sites_enabled \ {hostname}

\* reload_nginx: `nginx -t && systemctl reload nginx`, then an echo.  The
\* function touches no file, whatever nginx -t says, and returns the echo's
\* status, 0, in every case.
ReloadExit(nginx) == 0

\* How often reload_nginx ran `systemctl reload nginx`: only after a passed test.
ReloadsRun(nginx) == IF nginx = "ok" THEN 1 ELSE 0

TestResult(nginx) == IF nginx = "ok" THEN "ok" ELSE "failed"

\* create_template with `cat >>` in place of `cat >`.
CreateTemplateAppending == template_file' = template_file \o Template

\* ensure_directories; create_template: run by every invocation of the script
\* before its command is looked at.
CreateTemplate == template_file' = Template

\* generate <id> <ip> <port> <name>: the caller passes the address of a
\* container that is running, the only time it has one.
CmdGenerate(c, name, nginx) ==
    /\ UNCHANGED <<backendVars, bridgeVars, drawerVars, procVars, maintVars>>
    /\ container[c] = "running"
    /\ CreateTemplate
    /\ GenerateForContainer(template_file', c, AddressOf(c).ip, AddressOf(c).port, name)
    /\ last' = [NoOp EXCEPT !.op = "generate", !.cid = c, !.host = HostnameOf(name),
                            !.test = TestResult(nginx), !.reloads = ReloadsRun(nginx),
                            !.exit = ReloadExit(nginx)]
    /\ UNCHANGED <<clock, container, events, watching, missed>>

\* remove <hostname>
CmdRemove(hostname, nginx) ==
    /\ UNCHANGED <<backendVars, bridgeVars, drawerVars, procVars, maintVars>>
    /\ CreateTemplate
    /\ RemoveForHostname(hostname)
    /\ last' = [NoOp EXCEPT !.op = "remove", !.host = hostname,
                            !.test = TestResult(nginx), !.reloads = ReloadsRun(nginx),
                            !.exit = ReloadExit(nginx)]
    /\ UNCHANGED <<clock, container, events, watching, missed>>

\* sync_all_containers: two echos; the docker ps loop is commented out.
SyncAllContainers ==
    UNCHANGED <<sites_available, sites_enabled>>

\* sync
CmdSync ==
    /\ UNCHANGED <<backendVars, bridgeVars, drawerVars, procVars, maintVars>>
    /\ CreateTemplate
    /\ SyncAllContainers
    /\ last' = [NoOp EXCEPT !.op = "sync"]
    /\ UNCHANGED <<clock, container, events, watching, missed>>

\* init
CmdInit ==
    /\ UNCHANGED <<backendVars, bridgeVars, drawerVars, procVars, maintVars>>
    /\ CreateTemplate
    /\ last' = [NoOp EXCEPT !.op = "init"]
    /\ UNCHANGED <<sites_available, sites_enabled, clock, container,
                   events, watching, missed>>

\* any other first argument, or none: the usage text and exit 1
CmdUsage ==
    /\ UNCHANGED <<backendVars, bridgeVars, drawerVars, procVars, maintVars>>
    /\ CreateTemplate
    /\ last' = [NoOp EXCEPT !.op = "usage", !.exit = 1]
    /\ UNCHANGED <<sites_available, sites_enabled, clock, container,
                   events, watching, missed>>

\* watch: the script starts reading `docker events`.
CmdWatch ==
    /\ UNCHANGED <<backendVars, bridgeVars, drawerVars, procVars, maintVars>>
    /\ ~watching
    /\ CreateTemplate
    /\ watching' = TRUE
    /\ last' = [NoOp EXCEPT !.op = "watch"]
    /\ UNCHANGED <<sites_available, sites_enabled, clock, container, events, missed>>

\* handle_container_event: start|create asks the orchestrator for the
\* container's info and generates only when the answer is not empty;
\* stop|die looks the hostname up and removes only when it is not empty.
\* `generate_for_container $container_info` passes the answer as one word.
HandleContainerEvent(action, container_id, nginx) ==
    LET done == [NoOp EXCEPT !.op = "event", !.action = action, !.cid = container_id]
        reloaded == [done EXCEPT !.test = TestResult(nginx), !.reloads = ReloadsRun(nginx)]
    IN  IF action \in {"start", "create"}
        THEN LET container_info == GetContainerInfo(container_id)
             IN  IF container_info # ""
                 THEN /\ GenerateForContainer(template_file, container_info, "", "", "")
                      /\ last' = reloaded
                 ELSE /\ UNCHANGED <<sites_available, sites_enabled>>
                      /\ last' = done
        ELSE LET hostname == GetHostnameFromContainer(container_id)
             IN  IF hostname # ""
                 THEN /\ RemoveForHostname(hostname)
                      /\ last' = reloaded
                 ELSE /\ UNCHANGED <<sites_available, sites_enabled>>
                      /\ last' = done

\* watch_docker_events: one turn of `while read action container_id`.
WatchEvent(nginx) ==
    /\ UNCHANGED <<backendVars, bridgeVars, drawerVars, procVars, maintVars>>
    /\ watching
    /\ events # << >>
    /\ HandleContainerEvent(Head(events)[1], Head(events)[2], nginx)
    /\ events' = Tail(events)
    /\ UNCHANGED <<template_file, clock, container, watching, missed>>

\* `docker events` ends (daemon restart, broken pipe): the loop reads what is
\* left in the pipe and the script exits.
StreamDrop ==
    /\ UNCHANGED <<backendVars, bridgeVars, drawerVars, procVars, maintVars>>
    /\ watching
    /\ events = << >>
    /\ watching' = FALSE
    /\ UNCHANGED <<sites_available, sites_enabled, template_file,
                   clock, container, events, missed, last>>

(***************************************************************************)
(* The container runtime: labelled challenge containers and the events     *)
(* `docker events --filter label=ctf.challenge` prints for them.  Events   *)
(* are streamed live: what is emitted while nobody watches is not kept.    *)
(***************************************************************************)
CanEmit(n) == watching => Len(events) + n <= MaxEvents

Emit(c, es) ==
    /\ events' = IF watching THEN events \o es ELSE events
    /\ missed' = IF watching THEN missed ELSE missed \cup {c}

RuntimeStep(c, from, to, es) ==
    /\ UNCHANGED <<backendVars, bridgeVars, drawerVars, procVars, maintVars>>
    /\ container[c] = from
    /\ CanEmit(Len(es))
    /\ container' = [container EXCEPT ![c] = to]
    /\ Emit(c, es)
    /\ UNCHANGED <<sites_available, sites_enabled, template_file, clock, watching, last>>

\* docker create, docker start
RuntimeCreate(c) == RuntimeStep(c, "none", "created", << <<"create", c>> >>)
RuntimeStart(c) == RuntimeStep(c, "created", "running", << <<"start", c>> >>)
\* docker stop: the container is stopped and its main process dies
RuntimeStop(c) == RuntimeStep(c, "running", "stopped", << <<"stop", c>>, <<"die", c>> >>)
\* the main process exits on its own
RuntimeCrash(c) == RuntimeStep(c, "running", "exited", << <<"die", c>> >>)

Tick ==
    /\ UNCHANGED <<backendVars, bridgeVars, drawerVars, procVars, maintVars>>
    /\ clock < MaxClock
    /\ clock' = clock + 1
    /\ UNCHANGED <<sites_available, sites_enabled, template_file,
                   container, events, watching, missed, last>>

ScriptNext ==
    \/ \E c \in Cids, name \in ChallengeNames, nginx \in NginxOutcomes :
          CmdGenerate(c, name, nginx)
    \/ \E h \in Hostnames, nginx \in NginxOutcomes : CmdRemove(h, nginx)
    \/ CmdSync
    \/ CmdInit
    \/ CmdUsage
    \/ CmdWatch
    \/ \E nginx \in NginxOutcomes : WatchEvent(nginx)
    \/ StreamDrop
    \/ \E c \in Cids : RuntimeCreate(c)
    \/ \E c \in Cids : RuntimeStart(c)
    \/ \E c \in Cids : RuntimeStop(c)
    \/ \E c \in Cids : RuntimeCrash(c)
    \/ Tick

(***************************************************************************)
(* Part II.  Registry, Instance Manager and Lifecycle Watcher.             *)
(***************************************************************************)
\* The instance ids of the model; a purged id is handed out again.
Iids == {1, 2}
Owners == {"team-7", "team-9"}
Challenges == {"pwn-101", "web-200"}

\* "unless the challenge explicitly permits concurrent instances"
PermitsConcurrent(challenge_id) == challenge_id = "web-200"

InstanceStates == {"pending", "running", "stopping", "stopped", "error"}

\* An instance id with no row: never handed out, or purged by Registry.remove.
FreeRow == [state |-> "free", challenge_id |-> "", owner_id |-> "", expires_at |-> 0]

HasRow(i) == registry[i].state \in InstanceStates

\* hostname: <challenge-slug>-<owner-slug>.challenges.<domain>
InstanceHostname(row) == <<row.challenge_id, row.owner_id, ".challenges.ctf.com">>

\* A state graph that also lets a pending instance be stopped.
AllowedEdgeLoose(from, to) ==
    \/ to = "error"
    \/ <<from, to>> \in { <<"pending", "running">>, <<"running", "stopping">>,
                         <<"stopping", "stopped">>, <<"pending", "stopping">> }

\* The allowed state graph: pending -> running -> stopping -> stopped, and
\* any state -> error.
AllowedEdge(from, to) ==
    \/ to = "error"
    \/ <<from, to>> \in { <<"pending", "running">>, <<"running", "stopping">>,
                         <<"stopping", "stopped">> }

\* Registry.transition: the requested state on an allowed edge; otherwise
\* InvalidTransition, and the instance is forced to error.
TransitionState(from, to) == IF AllowedEdge(from, to) THEN to ELSE "error"
TransitionResult(from, to) == IF AllowedEdge(from, to) THEN "ok" ELSE "InvalidTransition"

\* The one-per-owner policy: an instance of the pair is pending or running.
ActiveFor(challenge_id, owner_id) ==
    { i \in Iids : /\ registry[i].state \in {"pending", "running"}
                   /\ registry[i].challenge_id = challenge_id
                   /\ registry[i].owner_id = owner_id }

\* Registry.upsertInstance's collision guard: the hostname is enabled for
\* another instance.
HostnameEnabledFor(row, self) ==
    \E j \in routes : j # self /\ InstanceHostname(registry[j]) = InstanceHostname(row)

\* What the step just taken answered; NoReply for a step of the runtime or the clock.
Reply(op, challenge_id, owner_id, res) ==
    [op |-> op, challenge_id |-> challenge_id, owner_id |-> owner_id, res |-> res]
NoReply == Reply("none", "", "", "none")

BackendInit ==
    /\ registry = [i \in Iids |-> FreeRow]
    /\ routes = {}
    /\ runtime = [i \in Iids |-> "none"]
    /\ now = 0
    /\ reply = NoReply

\* requestInstance without the one-per-owner check.
RequestVerdictUnguarded(challenge_id, owner_id, runtimeUp) ==
    LET row == [state |-> "pending", challenge_id |-> challenge_id,
                owner_id |-> owner_id, expires_at |-> now + InstanceTtl]
    IN  IF HostnameEnabledFor(row, 0) THEN "HostnameConflict"
        ELSE IF ~runtimeUp THEN "RuntimeUnavailable"
        ELSE "ok"

\* The verdict of requestInstance before anything is created.
RequestVerdict(challenge_id, owner_id, runtimeUp) ==
    LET row == [state |-> "pending", challenge_id |-> challenge_id,
                owner_id |-> owner_id, expires_at |-> now + InstanceTtl]
    IN  IF ~PermitsConcurrent(challenge_id) /\ ActiveFor(challenge_id, owner_id) # {}
        THEN "AlreadyActive"
        ELSE IF HostnameEnabledFor(row, 0) THEN "HostnameConflict"
        ELSE IF ~runtimeUp THEN "RuntimeUnavailable"
        ELSE "ok"

\* A terminal session is still attached to the instance id: the id is not
\* handed out again before the session is over.
Attached(i) ==
    \E s \in DOMAIN session :
        session[s].state \in {"open", "closing"} /\ session[s].instance_id = i

\* InstanceManager.requestInstance: refuses with AlreadyActive when the pair
\* has an active instance; otherwise issues the runtime create and inserts a
\* pending row that expires one TTL from now.  The running transition is the
\* watcher's.
RequestInstance(challenge_id, owner_id, runtimeUp) ==
    LET verdict == RequestVerdict(challenge_id, owner_id, runtimeUp)
        free == { i \in Iids : registry[i].state = "free" /\ ~Attached(i) }
        id == CHOOSE i \in free : \A j \in free : i <= j
    IN  /\ UNCHANGED <<scriptVars, bridgeVars, drawerVars, procVars, maintVars>>
        /\ IF verdict = "ok"
           THEN /\ free # {}
                /\ now + InstanceTtl <= MaxNow
                /\ runtime' = [runtime EXCEPT ![id] = "created"]
                /\ registry' = [registry EXCEPT ![id] =
                       [state |-> "pending", challenge_id |-> challenge_id,
                        owner_id |-> owner_id, expires_at |-> now + InstanceTtl]]
           ELSE UNCHANGED <<runtime, registry>>
        /\ reply' = Reply("requestInstance", challenge_id, owner_id, verdict)
        /\ UNCHANGED <<routes, now>>

\* A stopInstance that takes the stop for done and marks the row stopped.
StoppedRowAssumed(row, runtimeUp) ==
    IF runtimeUp THEN [row EXCEPT !.state = "stopped"] ELSE row

\* What stopInstance does to one row: with the runtime reachable it issues the
\* stop and marks the row stopping through Registry.transition; with the
\* runtime unreachable it leaves the row for a retry.
StoppedRow(row, runtimeUp) ==
    IF runtimeUp THEN [row EXCEPT !.state = TransitionState(row.state, "stopping")] ELSE row

\* The runtime's side of a stop command: advisory, the container dies later.
StopIssued(status, runtimeUp) ==
    IF runtimeUp /\ status \in {"created", "running"} THEN "stopping" ELSE status

\* InstanceManager.stopInstance
StopInstance(i, runtimeUp) ==
    /\ UNCHANGED <<scriptVars, bridgeVars, drawerVars, procVars, maintVars>>
    /\ HasRow(i)
    /\ registry' = [registry EXCEPT ![i] = StoppedRow(registry[i], runtimeUp)]
    /\ runtime' = [runtime EXCEPT ![i] = StopIssued(runtime[i], runtimeUp)]
    /\ reply' = Reply("stopInstance", "", "",
                      IF runtimeUp THEN TransitionResult(registry[i].state, "stopping")
                                   ELSE "RuntimeUnavailable")
    /\ UNCHANGED <<routes, now>>

\* listExpired with one tick of grace.
ListExpiredLate(t) == { i \in Iids : HasRow(i) /\ registry[i].expires_at + 1 < t }

\* Registry.listExpired(now): rows with expires_at < now.
ListExpired(t) == { i \in Iids : HasRow(i) /\ registry[i].expires_at < t }

\* InstanceManager.checkExpired: one run of the periodic sweep; stopInstance on
\* every expired row.  With the runtime unreachable the rows are deferred to
\* the next cycle.
CheckExpired(runtimeUp) ==
    /\ UNCHANGED <<scriptVars, bridgeVars, drawerVars, procVars, maintVars>>
    /\ registry' = [i \in Iids |-> IF i \in ListExpired(now)
                                   THEN StoppedRow(registry[i], runtimeUp)
                                   ELSE registry[i]]
    /\ runtime' = [i \in Iids |-> IF i \in ListExpired(now)
                                  THEN StopIssued(runtime[i], runtimeUp)
                                  ELSE runtime[i]]
    /\ reply' = Reply("checkExpired", "", "", IF runtimeUp THEN "ok" ELSE "RuntimeUnavailable")
    /\ UNCHANGED <<routes, now>>

\* Lifecycle Watcher, start event of a known pending instance: upsertInstance,
\* on success transition(running), then publish.
ObserveStart(i) ==
    /\ UNCHANGED <<scriptVars, bridgeVars, drawerVars, procVars, maintVars>>
    /\ runtime[i] = "running"
    /\ registry[i].state = "pending"
    /\ IF HostnameEnabledFor(registry[i], i)
       THEN /\ reply' = Reply("start", "", "", "HostnameConflict")
            /\ registry' = [registry EXCEPT ![i].state = "error"]
            /\ UNCHANGED routes
       ELSE /\ reply' = Reply("start", "", "", "ok")
            /\ registry' = [registry EXCEPT ![i].state = TransitionState(@, "running")]
            /\ routes' = routes \cup {i}
    /\ UNCHANGED <<runtime, now>>

\* A die handler that purges the row and leaves the route published.
ObserveDieKeepsRoute(i) ==
    /\ UNCHANGED <<scriptVars, bridgeVars, drawerVars, procVars, maintVars>>
    /\ runtime[i] = "exited"
    /\ registry[i].state \in {"pending", "running", "stopping"}
    /\ registry' = [registry EXCEPT ![i] = FreeRow]
    /\ runtime' = [runtime EXCEPT ![i] = "none"]
    /\ reply' = Reply("die", "", "", "ok")
    /\ UNCHANGED <<routes, now>>

\* Lifecycle Watcher, die event of a known instance: retract, transition
\* (stopped), then remove, after which the exited container is deleted; a
\* refused transition leaves the row in error.
ObserveDie(i) ==
    /\ UNCHANGED <<scriptVars, bridgeVars, drawerVars, procVars, maintVars>>
    /\ runtime[i] = "exited"
    /\ registry[i].state \in {"pending", "running", "stopping"}
    /\ routes' = routes \ {i}
    /\ registry' = [registry EXCEPT ![i] =
           IF AllowedEdge(@.state, "stopped") THEN FreeRow
                                              ELSE [@ EXCEPT !.state = "error"]]
    /\ runtime' = [runtime EXCEPT ![i] =
           IF AllowedEdge(registry[i].state, "stopped") THEN "none" ELSE @]
    /\ reply' = Reply("die", "", "", TransitionResult(registry[i].state, "stopped"))
    /\ UNCHANGED now

\* An instance in error is removed by force: its container is stopped and
\* deleted, its route retracted, its row purged.
ForcedRemoval(i) ==
    /\ UNCHANGED <<scriptVars, bridgeVars, drawerVars, procVars, maintVars>>
    /\ registry[i].state = "error"
    /\ routes' = routes \ {i}
    /\ registry' = [registry EXCEPT ![i] = FreeRow]
    /\ runtime' = [runtime EXCEPT ![i] = "none"]
    /\ reply' = Reply("forcedRemoval", "", "", "ok")
    /\ UNCHANGED now

\* The runtime starts a created container; a container exits when it was told
\* to stop, or on its own.
InstanceStarts(i) ==
    /\ UNCHANGED <<scriptVars, bridgeVars, drawerVars, procVars, maintVars>>
    /\ runtime[i] = "created"
    /\ runtime' = [runtime EXCEPT ![i] = "running"]
    /\ reply' = NoReply
    /\ UNCHANGED <<registry, routes, now>>

InstanceExits(i) ==
    /\ UNCHANGED <<scriptVars, bridgeVars, drawerVars, procVars, maintVars>>
    /\ runtime[i] \in {"running", "stopping"}
    /\ runtime' = [runtime EXCEPT ![i] = "exited"]
    /\ reply' = NoReply
    /\ UNCHANGED <<registry, routes, now>>

Advance ==
    /\ UNCHANGED <<scriptVars, bridgeVars, drawerVars, procVars, maintVars>>
    /\ now < MaxNow
    /\ now' = now + 1
    /\ reply' = NoReply
    /\ UNCHANGED <<registry, routes, runtime>>

BackendNext ==
    \/ \E ch \in Challenges, ow \in Owners, up \in BOOLEAN : RequestInstance(ch, ow, up)
    \/ \E i \in Iids, up \in BOOLEAN : StopInstance(i, up)
    \/ \E up \in BOOLEAN : CheckExpired(up)
    \/ \E i \in Iids : ObserveStart(i)
    \/ \E i \in Iids : ObserveDie(i)
    \/ \E i \in Iids : ForcedRemoval(i)
    \/ \E i \in Iids : InstanceStarts(i)
    \/ \E i \in Iids : InstanceExits(i)
    \/ Advance

(***************************************************************************)
(* Part III.  Terminal Bridge.                                             *)
(***************************************************************************)
Sids == {"s-1", "s-2"}

SessionStates == {"connecting", "open", "closing", "closed"}
PumpStates == {"idle", "running", "canceled", "stopped"}
Pumps == {"inbound", "outbound"}

\* A session id no upgrade has used.
NoSession == [state |-> "none", instance_id |-> 0, socket |-> "none",
              inbound |-> "idle", outbound |-> "idle", frame |-> "none", grace |-> 0]

BridgeInit == session = [s \in Sids |-> NoSession]

Sibling(pump) == IF pump = "inbound" THEN "outbound" ELSE "inbound"

\* A pump told to stop: a running pump is canceled, any other is left as it is.
Cancel(status) == IF status = "running" THEN "canceled" ELSE status

\* An inbound WebSocket upgrade carrying an instance reference arrives.
Connect(s, i) ==
    /\ UNCHANGED <<scriptVars, backendVars, drawerVars, procVars, maintVars>>
    /\ session[s].state = "none"
    /\ session' = [session EXCEPT ![s] =
           [NoSession EXCEPT !.state = "connecting", !.instance_id = i,
                             !.socket = "requested"]]

\* An upgrade is accepted without looking at the instance's state.
UpgradeAcceptsAny(row) == row.state \in InstanceStates

\* The Bridge resolves the instance through the Registry: the upgrade is
\* accepted only for a running instance.
UpgradeAccepts(row) == row.state = "running"

\* The upgrade handler: accept the socket and start both pumps, or answer one
\* SessionRejected error frame and never accept the socket.
Upgrade(s) ==
    /\ UNCHANGED <<scriptVars, backendVars, drawerVars, procVars, maintVars>>
    /\ session[s].state = "connecting"
    /\ session' = [session EXCEPT ![s] =
           IF UpgradeAccepts(registry[session[s].instance_id])
           THEN [@ EXCEPT !.state = "open", !.socket = "accepted",
                          !.inbound = "running", !.outbound = "running"]
           ELSE [@ EXCEPT !.state = "closed", !.socket = "refused",
                          !.frame = "SessionRejected"]]

\* A pump that stops leaves its sibling running.
PumpStopsAlone(s, pump) ==
    /\ UNCHANGED <<scriptVars, backendVars, drawerVars, procVars, maintVars>>
    /\ session[s].state = "open"
    /\ session[s][pump] = "running"
    /\ session' = [session EXCEPT ![s] =
           [@ EXCEPT !.state = "closing", ![pump] = "stopped"]]

\* A pump of an open session stops (socket error, EOF, the client closing):
\* the session is closing and the sibling pump is canceled.
PumpStops(s, pump) ==
    /\ UNCHANGED <<scriptVars, backendVars, drawerVars, procVars, maintVars>>
    /\ session[s].state = "open"
    /\ session[s][pump] = "running"
    /\ session' = [session EXCEPT ![s] =
           [@ EXCEPT !.state = "closing", ![pump] = "stopped",
                     ![Sibling(pump)] = Cancel(@)]]

\* The instance-state watch that fires only once the row is purged.
LeftRunningWhenPurged(row) == row.state = "free"

\* What the instance-state watch of a session looks for.
LeftRunning(row) == row.state # "running"

\* The instance-state watch sees the instance out of running: the session is
\* closing and both pumps are canceled in the same step.
InstanceWatch(s) ==
    /\ UNCHANGED <<scriptVars, backendVars, drawerVars, procVars, maintVars>>
    /\ session[s].state = "open"
    /\ LeftRunning(registry[session[s].instance_id])
    /\ session' = [session EXCEPT ![s] =
           [@ EXCEPT !.state = "closing", !.inbound = Cancel(@),
                     !.outbound = Cancel(@)]]

\* A canceled pump closes its end and returns.
CanceledPumpExit(s, pump) ==
    /\ UNCHANGED <<scriptVars, backendVars, drawerVars, procVars, maintVars>>
    /\ session[s].state = "closing"
    /\ session[s][pump] = "canceled"
    /\ session' = [session EXCEPT ![s] = [@ EXCEPT ![pump] = "stopped"]]

\* The grace period of a closing session runs.
GraceTick(s) ==
    /\ UNCHANGED <<scriptVars, backendVars, drawerVars, procVars, maintVars>>
    /\ session[s].state = "closing"
    /\ session[s].grace < GracePeriod
    /\ session' = [session EXCEPT ![s] = [@ EXCEPT !.grace = @ + 1]]

\* The grace period is over: what still runs is torn down by force.
ForceTeardown(s) ==
    /\ UNCHANGED <<scriptVars, backendVars, drawerVars, procVars, maintVars>>
    /\ session[s].state = "closing"
    /\ session[s].grace = GracePeriod
    /\ session' = [session EXCEPT ![s] =
           [@ EXCEPT !.state = "closed", !.socket = "closed",
                     !.inbound = "stopped", !.outbound = "stopped"]]

\* Both pumps have returned: the socket is closed and the session is over.
Finish(s) ==
    /\ UNCHANGED <<scriptVars, backendVars, drawerVars, procVars, maintVars>>
    /\ session[s].state = "closing"
    /\ session[s].inbound = "stopped"
    /\ session[s].outbound = "stopped"
    /\ session' = [session EXCEPT ![s] =
           [@ EXCEPT !.state = "closed", !.socket = "closed"]]

\* The instances the bridge serves in BridgeSpec: one team's pwn-101.
BridgeNext ==
    \/ \E s \in Sids, i \in Iids : Connect(s, i)
    \/ \E s \in Sids : Upgrade(s)
    \/ \E s \in Sids, pump \in Pumps : PumpStops(s, pump)
    \/ \E s \in Sids : InstanceWatch(s)
    \/ \E s \in Sids, pump \in Pumps : CanceledPumpExit(s, pump)
    \/ \E s \in Sids : GraceTick(s)
    \/ \E s \in Sids : ForceTeardown(s)
    \/ \E s \in Sids : Finish(s)
    \/ RequestInstance("pwn-101", "team-7", TRUE)
    \/ \E i \in Iids : StopInstance(i, TRUE)
    \/ \E i \in Iids : ObserveStart(i)
    \/ \E i \in Iids : ObserveDie(i)
    \/ \E i \in Iids : ForcedRemoval(i)
    \/ \E i \in Iids : InstanceStarts(i)
    \/ \E i \in Iids : InstanceExits(i)

(***************************************************************************)
(* Part IV.  The TerminalDrawer component (client) and the inbound pump    *)
(* that reads what it sends.                                               *)
(***************************************************************************)
SockIds == 1..MaxSockets
NoSocket == 0

\* A WebSocket the drawer has not created yet.
Unused == [readyState |-> "unused", failing |-> FALSE]

DrawerInit ==
    /\ isOpen = FALSE
    /\ term = FALSE
    /\ wsRef = NoSocket
    /\ socket = [k \in SockIds |-> Unused]
    /\ handlers = {}
    /\ isConnected = FALSE
    /\ isLoading = FALSE
    /\ error = FALSE
    /\ wire = [k \in SockIds |-> << >>]
    /\ applied = [k \in SockIds |-> << >>]
    /\ nsent = 0

\* ws.send(string): a text frame; n orders the client's input events.
TextFrame(payload, n) == [opcode |-> "text", payload |-> payload, n |-> n]

\* ws.send on a set of sockets.
SendOn(ks, payload) ==
    [k \in SockIds |-> IF k \in ks THEN Append(wire[k], TextFrame(payload, nsent + 1))
                                    ELSE wire[k]]

\* A ws.close() that leaves the socket as it is.
CloseSocketLeaving(sock) == sock

\* ws.close(): a socket that is connecting fails, an open one is closing.
CloseSocket(sock) ==
    CASE sock.readyState = "connecting" -> [readyState |-> "closing", failing |-> TRUE]
      [] sock.readyState = "open"       -> [readyState |-> "closing", failing |-> sock.failing]
      [] OTHER                          -> sock

\* The socket `new WebSocket(wsUrl)` returns.
FreshSockets == { k \in SockIds : socket[k].readyState = "unused" }
NewSocket == CHOOSE k \in FreshSockets : \A j \in FreshSockets : k <= j

\* connectWebSocket with a terminal and a container id, after `closed` (a set
\* of sockets) was closed by the caller.
ConnectWebSocket(closed) ==
    /\ FreshSockets # {}
    /\ isLoading' = TRUE
    /\ error' = FALSE
    /\ socket' = [k \in SockIds |->
                     IF k = NewSocket THEN [readyState |-> "connecting", failing |-> FALSE]
                     ELSE IF k \in closed THEN CloseSocket(socket[k])
                     ELSE socket[k]]
    /\ wsRef' = NewSocket
    /\ handlers' = (IF term THEN handlers ELSE {}) \cup {NewSocket}

\* The drawer is opened: the terminal is created by the initialize effect and
\* the connect effect, which runs after it, calls connectWebSocket when
\* wsRef.current is null.
OpenDrawer ==
    /\ UNCHANGED <<scriptVars, backendVars, bridgeVars, procVars, maintVars>>
    /\ ~isOpen
    /\ isOpen' = TRUE
    /\ term' = TRUE
    /\ IF wsRef = NoSocket
       THEN ConnectWebSocket({})
       ELSE UNCHANGED <<isLoading, error, socket, wsRef, handlers>>
    /\ UNCHANGED <<isConnected, wire, applied, nsent>>

\* The drawer is closed: the cleanup effect closes the socket, disposes the
\* terminal and resets the flags.
CloseDrawer ==
    /\ UNCHANGED <<scriptVars, backendVars, bridgeVars, procVars, maintVars>>
    /\ isOpen
    /\ isOpen' = FALSE
    /\ socket' = [k \in SockIds |-> IF k = wsRef THEN CloseSocket(socket[k]) ELSE socket[k]]
    /\ wsRef' = NoSocket
    /\ term' = FALSE
    /\ handlers' = {}
    /\ isConnected' = FALSE
    /\ isLoading' = FALSE
    /\ error' = FALSE
    /\ UNCHANGED <<wire, applied, nsent>>

\* handleReconnect, from the Reconnect button (shown while neither connected
\* nor loading) or the Retry button of the error overlay.
HandleReconnect ==
    /\ UNCHANGED <<scriptVars, backendVars, bridgeVars, procVars, maintVars>>
    /\ isOpen
    /\ (~isConnected /\ ~isLoading) \/ error
    /\ IF term
       THEN ConnectWebSocket({wsRef})
       ELSE /\ socket' = [k \in SockIds |->
                            IF k = wsRef THEN CloseSocket(socket[k]) ELSE socket[k]]
            /\ wsRef' = NoSocket
            /\ UNCHANGED <<isLoading, error, handlers>>
    /\ UNCHANGED <<isOpen, term, isConnected, wire, applied, nsent>>

\* The handshake of socket k succeeds: readyState is OPEN and ws.onopen runs,
\* which sends the initial resize on k.
SocketOpens(k) ==
    /\ UNCHANGED <<scriptVars, backendVars, bridgeVars, procVars, maintVars>>
    /\ socket[k].readyState = "connecting"
    /\ nsent < MaxFrames
    /\ socket' = [socket EXCEPT ![k].readyState = "open"]
    /\ isConnected' = TRUE
    /\ isLoading' = FALSE
    /\ IF term
       THEN wire' = SendOn({k}, "resize") /\ nsent' = nsent + 1
       ELSE UNCHANGED <<wire, nsent>>
    /\ UNCHANGED <<isOpen, term, wsRef, handlers, error, applied>>

\* A ws.onclose that connects again by itself when the current socket closed.
SocketClosesReconnecting(k, fails) ==
    /\ UNCHANGED <<scriptVars, backendVars, bridgeVars, procVars, maintVars>>
    /\ socket[k].readyState \in {"connecting", "open", "closing"}
    /\ socket[k].readyState = "connecting" => fails
    /\ LET again == k = wsRef /\ isOpen /\ FreshSockets # {}
       IN  /\ socket' = [j \in SockIds |->
                  IF j = k THEN [readyState |-> "closed", failing |-> FALSE]
                  ELSE IF again /\ j = NewSocket
                       THEN [readyState |-> "connecting", failing |-> FALSE]
                  ELSE socket[j]]
           /\ wsRef' = IF again THEN NewSocket ELSE wsRef
           /\ handlers' = IF again THEN handlers \cup {NewSocket} ELSE handlers
           /\ isLoading' = again
    /\ error' = (error \/ fails \/ socket[k].failing)
    /\ isConnected' = FALSE
    /\ UNCHANGED <<isOpen, term, wire, applied, nsent>>

\* Socket k is closed, by the peer, the network or an earlier ws.close():
\* ws.onerror runs when the connection failed, then ws.onclose.
SocketCloses(k, fails) ==
    /\ UNCHANGED <<scriptVars, backendVars, bridgeVars, procVars, maintVars>>
    /\ socket[k].readyState \in {"connecting", "open", "closing"}
    /\ socket[k].readyState = "connecting" => fails
    /\ socket' = [socket EXCEPT ![k] = [readyState |-> "closed", failing |-> FALSE]]
    /\ error' = (error \/ fails \/ socket[k].failing)
    /\ isConnected' = FALSE
    /\ isLoading' = FALSE
    /\ UNCHANGED <<isOpen, term, wsRef, handlers, wire, applied, nsent>>

\* onData handlers that send without looking at ws.readyState.
KeystrokeTargetsUnchecked == handlers

\* The sockets an onData handler sends a keystroke on.
KeystrokeTargets == { k \in handlers : socket[k].readyState = "open" }

\* The terminal reports typed data: every registered onData handler runs
\* and sends on its own socket when that socket is OPEN.
Keystroke ==
    /\ UNCHANGED <<scriptVars, backendVars, bridgeVars, procVars, maintVars>>
    /\ term
    /\ nsent < MaxFrames
    /\ wire' = SendOn(KeystrokeTargets, "keys")
    /\ nsent' = nsent + 1
    /\ UNCHANGED <<isOpen, term, wsRef, socket, handlers, isConnected, isLoading,
                   error, applied>>

\* handleResize, the window's resize listener: a resize frame on
\* wsRef.current when it is OPEN.
WindowResize ==
    /\ UNCHANGED <<scriptVars, backendVars, bridgeVars, procVars, maintVars>>
    /\ isOpen /\ term
    /\ nsent < MaxFrames
    /\ wsRef # NoSocket
    /\ socket[wsRef].readyState = "open"
    /\ wire' = SendOn({wsRef}, "resize")
    /\ nsent' = nsent + 1
    /\ UNCHANGED <<isOpen, term, wsRef, socket, handlers, isConnected, isLoading,
                   error, applied>>

\* An inbound pump that reads the newest frame first.
InboundTakeNewest(frames) == Len(frames)

\* The frame the inbound pump reads next: the oldest one.
InboundTake(frames) == 1

\* What the inbound pump does with a frame: a JSON resize control frame goes
\* to the runtime's resize API, a binary frame to the container's stdin; a
\* text frame that is no control frame is written to stdin or dropped.
InboundEffects(frame) ==
    CASE frame.opcode = "binary"                             -> {"stdin"}
      [] frame.opcode = "text" /\ frame.payload = "resize"   -> {"resize"}
      [] OTHER                                               -> {"stdin", "dropped"}

\* The inbound pump of socket k's session handles one frame.
InboundPump(k, effect) ==
    /\ UNCHANGED <<scriptVars, backendVars, bridgeVars, procVars, maintVars>>
    /\ wire[k] # << >>
    /\ LET at == InboundTake(wire[k])
           frame == wire[k][at]
       IN  /\ effect \in InboundEffects(frame)
           /\ wire' = [wire EXCEPT ![k] =
                  SubSeq(@, 1, at - 1) \o SubSeq(@, at + 1, Len(@))]
           /\ applied' = [applied EXCEPT ![k] =
                  IF effect = "dropped" THEN @ ELSE Append(@, [effect |-> effect, n |-> frame.n])]
    /\ UNCHANGED <<isOpen, term, wsRef, socket, handlers, isConnected, isLoading,
                   error, nsent>>

DrawerNext ==
    \/ OpenDrawer
    \/ CloseDrawer
    \/ HandleReconnect
    \/ \E k \in SockIds : SocketOpens(k)
    \/ \E k \in SockIds, fails \in BOOLEAN : SocketCloses(k, fails)
    \/ Keystroke
    \/ WindowResize
    \/ \E k \in SockIds, effect \in {"stdin", "resize", "dropped"} : InboundPump(k, effect)

(***************************************************************************)
(* Part VI.  scripts/maintenance-mode.sh                                   *)
(***************************************************************************)
NoRun == [op |-> "none", root |-> FALSE, active |-> FALSE, reload |-> "none",
          flag |-> FALSE, exit |-> 0]

MaintInit ==
    /\ flag = FALSE
    /\ webroot = TRUE
    /\ nginx_active = TRUE
    /\ nginx_reloads = 0
    /\ mlast = NoRun

\* check_root: `[ "$EUID" -ne 0 ]` ends the script with status 1.
CheckRoot(op, root) ==
    /\ ~root
    /\ mlast' = [NoRun EXCEPT !.op = op, !.flag = flag, !.exit = 1]
    /\ UNCHANGED <<flag, webroot, nginx_active, nginx_reloads>>

\* touch "$MAINTENANCE_FILE": the file exists afterwards when it did before
\* or when its directory is there; the script does not look at the status.
Touch == flag \/ webroot

\* systemctl reload nginx: fails on a unit that is not active, and may fail
\* on one that is (reloadOk is the unit's answer then).
ReloadResult(reloadOk) == IF nginx_active /\ reloadOk THEN "ok" ELSE "failed"

\* enable_maintenance, `on|enable|start`
EnableMaintenance(root, reloadOk) ==
    /\ UNCHANGED <<scriptVars, backendVars, bridgeVars, drawerVars, procVars>>
    /\ nginx_reloads < MaxReloads
    /\ \/ CheckRoot("on", root)
       \/ /\ root
          /\ IF nginx_active
             THEN LET reload == ReloadResult(reloadOk)
                  IN  /\ flag' = IF reload = "ok" THEN Touch ELSE FALSE
                      /\ nginx_reloads' = nginx_reloads + (IF reload = "ok" THEN 1 ELSE 0)
                      /\ mlast' = [op |-> "on", root |-> TRUE, active |-> TRUE,
                                   reload |-> reload, flag |-> flag',
                                   exit |-> IF reload = "ok" THEN 0 ELSE 1]
             ELSE /\ flag' = FALSE
                  /\ mlast' = [op |-> "on", root |-> TRUE, active |-> FALSE,
                               reload |-> "none", flag |-> FALSE, exit |-> 1]
                  /\ UNCHANGED nginx_reloads
          /\ UNCHANGED <<webroot, nginx_active>>

\* disable_maintenance, `off|disable|stop`
DisableMaintenance(root, reloadOk) ==
    /\ UNCHANGED <<scriptVars, backendVars, bridgeVars, drawerVars, procVars>>
    /\ nginx_reloads < MaxReloads
    /\ \/ CheckRoot("off", root)
       \/ /\ root
          /\ IF flag
             THEN LET reload == ReloadResult(reloadOk)
                  IN  /\ flag' = FALSE
                      /\ nginx_reloads' = nginx_reloads + (IF reload = "ok" THEN 1 ELSE 0)
                      /\ mlast' = [op |-> "off", root |-> TRUE, active |-> nginx_active,
                                   reload |-> reload, flag |-> FALSE,
                                   exit |-> IF reload = "ok" THEN 0 ELSE 1]
             ELSE /\ mlast' = [op |-> "off", root |-> TRUE, active |-> nginx_active,
                               reload |-> "none", flag |-> FALSE, exit |-> 0]
                  /\ UNCHANGED <<flag, nginx_reloads>>
          /\ UNCHANGED <<webroot, nginx_active>>

\* check_status, `status|check` and the default: reads, changes nothing.
CheckStatus(root) ==
    /\ UNCHANGED <<scriptVars, backendVars, bridgeVars, drawerVars, procVars>>
    /\ mlast' = [op |-> "status", root |-> root, active |-> nginx_active,
                 reload |-> "none", flag |-> flag, exit |-> 0]
    /\ UNCHANGED <<flag, webroot, nginx_active, nginx_reloads>>

\* any other word: usage, status 1.
UnknownCommand(root) ==
    /\ UNCHANGED <<scriptVars, backendVars, bridgeVars, drawerVars, procVars>>
    /\ mlast' = [NoRun EXCEPT !.op = "unknown", !.root = root, !.flag = flag, !.exit = 1]
    /\ UNCHANGED <<flag, webroot, nginx_active, nginx_reloads>>

\* The host outside the script: nginx is stopped or started, the directory
\* of the flag file is removed (with what is in it) or created.
NginxStops ==
    /\ UNCHANGED <<scriptVars, backendVars, bridgeVars, drawerVars, procVars>>
    /\ nginx_active
    /\ nginx_active' = FALSE
    /\ UNCHANGED <<flag, webroot, nginx_reloads, mlast>>

NginxStarts ==
    /\ UNCHANGED <<scriptVars, backendVars, bridgeVars, drawerVars, procVars>>
    /\ ~nginx_active
    /\ nginx_active' = TRUE
    /\ UNCHANGED <<flag, webroot, nginx_reloads, mlast>>

WebrootRemoved ==
    /\ UNCHANGED <<scriptVars, backendVars, bridgeVars, drawerVars, procVars>>
    /\ webroot
    /\ webroot' = FALSE
    /\ flag' = FALSE
    /\ UNCHANGED <<nginx_active, nginx_reloads, mlast>>

WebrootCreated ==
    /\ UNCHANGED <<scriptVars, backendVars, bridgeVars, drawerVars, procVars>>
    /\ ~webroot
    /\ webroot' = TRUE
    /\ UNCHANGED <<flag, nginx_active, nginx_reloads, mlast>>

MaintNext ==
    \/ \E root, reloadOk \in BOOLEAN : EnableMaintenance(root, reloadOk)
    \/ \E root, reloadOk \in BOOLEAN : DisableMaintenance(root, reloadOk)
    \/ \E root \in BOOLEAN : CheckStatus(root)
    \/ \E root \in BOOLEAN : UnknownCommand(root)
    \/ NginxStops
    \/ NginxStarts
    \/ WebrootRemoved
    \/ WebrootCreated

(***************************************************************************)
(* Part V.  generate and remove run as processes of their own: calls that  *)
(* arrive together overlap, and the script takes no lock.                  *)
(***************************************************************************)
Procs == {"p1", "p2"}

Idle == [pc |-> "idle", cmd |-> "none", cid |-> NoCid, name |-> ""]

ProcInit ==
    /\ proc = [p \in Procs |-> Idle]
    /\ lastIssued = [h \in Hostnames |-> "none"]
    /\ nreloads = 0
    /\ ncalls = 0

\* The script is started with `generate <id> <ip> <port> <name>` or with
\* `remove <hostname>`: ensure_directories and create_template run first.
Issue(p, cmd, c, name) ==
    /\ UNCHANGED <<backendVars, bridgeVars, drawerVars, maintVars>>
    /\ proc[p].pc = "idle"
    /\ ncalls < MaxCalls
    /\ ncalls' = ncalls + 1
    /\ CreateTemplate
    /\ proc' = [proc EXCEPT ![p] =
           [pc |-> IF cmd = "generate" THEN "write" ELSE "rmfile",
            cmd |-> cmd, cid |-> c, name |-> name]]
    /\ lastIssued' = [lastIssued EXCEPT ![HostnameOf(name)] = cmd]
    /\ UNCHANGED <<sites_available, sites_enabled, clock, container, events,
                   watching, missed, last, nreloads>>

\* generate_for_container, first half: sed ... > "$conf_file"
GenWrite(p) ==
    /\ UNCHANGED <<backendVars, bridgeVars, drawerVars, maintVars>>
    /\ proc[p].pc = "write"
    /\ LET hostname == HostnameOf(proc[p].name)
           d == [hostname |-> hostname, container_ip |-> AddressOf(proc[p].cid).ip,
                 container_port |-> AddressOf(proc[p].cid).port,
                 challenge_name |-> proc[p].name, timestamp |-> clock,
                 container_id |-> proc[p].cid]
       IN  sites_available' = WriteFile(sites_available, hostname,
                                        SedRender(template_file, d))
    /\ proc' = [proc EXCEPT ![p].pc = "link"]
    /\ UNCHANGED <<sites_enabled, template_file, clock, container, events,
                   watching, missed, last, lastIssued, nreloads, ncalls>>

\* generate_for_container, second half: ln -sf
GenLink(p) ==
    /\ UNCHANGED <<backendVars, bridgeVars, drawerVars, maintVars>>
    /\ proc[p].pc = "link"
    /\ sites_enabled' = sites_enabled \cup {HostnameOf(proc[p].name)}
    /\ proc' = [proc EXCEPT ![p].pc = "reload"]
    /\ UNCHANGED <<sites_available, template_file, clock, container, events,
                   watching, missed, last, lastIssued, nreloads, ncalls>>

\* remove_for_hostname, first half: rm -f "$conf_file"
RmFile(p) ==
    /\ UNCHANGED <<backendVars, bridgeVars, drawerVars, maintVars>>
    /\ proc[p].pc = "rmfile"
    /\ sites_available' = RemoveFile(sites_available, HostnameOf(proc[p].name))
    /\ proc' = [proc EXCEPT ![p].pc = "rmlink"]
    /\ UNCHANGED <<sites_enabled, template_file, clock, container, events,
                   watching, missed, last, lastIssued, nreloads, ncalls>>

\* remove_for_hostname, second half: rm -f of the link
RmLink(p) ==
    /\ UNCHANGED <<backendVars, bridgeVars, drawerVars, maintVars>>
    /\ proc[p].pc = "rmlink"
    /\ sites_enabled' = sites_enabled \ {HostnameOf(proc[p].name)}
    /\ proc' = [proc EXCEPT ![p].pc = "reload"]
    /\ UNCHANGED <<sites_available, template_file, clock, container, events,
                   watching, missed, last, lastIssued, nreloads, ncalls>>

\* reload_nginx, the last step of both commands; the process ends.
ProcReload(p, nginx) ==
    /\ UNCHANGED <<backendVars, bridgeVars, drawerVars, maintVars>>
    /\ proc[p].pc = "reload"
    /\ nreloads' = nreloads + ReloadsRun(nginx)
    /\ proc' = [proc EXCEPT ![p] = Idle]
    /\ last' = [NoOp EXCEPT !.op = proc[p].cmd, !.cid = proc[p].cid,
                            !.host = HostnameOf(proc[p].name),
                            !.test = TestResult(nginx), !.reloads = ReloadsRun(nginx),
                            !.exit = ReloadExit(nginx)]
    /\ UNCHANGED <<sites_available, sites_enabled, template_file, clock, container,
                   events, watching, missed, lastIssued, ncalls>>

ProcNext ==
    \/ \E p \in Procs, cmd \in {"generate", "remove"}, c \in Cids, name \in ChallengeNames :
          Issue(p, cmd, c, name)
    \/ \E p \in Procs : GenWrite(p)
    \/ \E p \in Procs : GenLink(p)
    \/ \E p \in Procs : RmFile(p)
    \/ \E p \in Procs : RmLink(p)
    \/ \E p \in Procs, nginx \in NginxOutcomes : ProcReload(p, nginx)

Init == ScriptInit /\ BackendInit /\ BridgeInit /\ DrawerInit /\ ProcInit /\ MaintInit

Next == ScriptNext

Spec == Init /\ [][Next]_vars

\* The commands that render and retract, over every name a caller can pass,
\* with the containers they are called for.
RenderNext ==
    \/ \E c \in Cids, name \in ChallengeNames \cup BreakingNames, nginx \in NginxOutcomes :
          CmdGenerate(c, name, nginx)
    \/ \E name \in ChallengeNames \cup BreakingNames, nginx \in NginxOutcomes :
          CmdRemove(HostnameOf(name), nginx)
    \/ CmdInit
    \/ \E c \in Cids : RuntimeCreate(c)
    \/ \E c \in Cids : RuntimeStart(c)
    \/ Tick

\* The script with a watch loop that never stops reading: an event that is
\* waiting is handled.  The runtime and the callers are under no obligation.
WatchFairSpec == Spec /\ WF_vars(\E nginx \in NginxOutcomes : WatchEvent(nginx))

RenderSpec == Init /\ [][RenderNext]_vars

\* The control plane on its own: Instance Manager, sweep, watcher, runtime.
BackendSpec == Init /\ [][BackendNext]_vars

\* The bridge and the instances it serves.
BridgeSpec == Init /\ [][BridgeNext]_vars

\* The bridge's own tasks are scheduled: the instance-state watch, the grace
\* timer, the teardown.  Nothing is assumed of the client, the pumps or the
\* container runtime.
BridgeFairness ==
    \A s \in Sids : /\ WF_vars(InstanceWatch(s))
                     /\ WF_vars(GraceTick(s))
                     /\ WF_vars(ForceTeardown(s))
                     /\ WF_vars(Finish(s))

BridgeFairSpec == BridgeSpec /\ BridgeFairness

\* One drawer, its sockets and the inbound pumps behind them.
DrawerSpec == Init /\ [][DrawerNext]_vars

\* The calls of one debounce window, each a process of its own.
ProcSpec == Init /\ [][ProcNext]_vars

\* Runs of maintenance-mode.sh on a host whose nginx and web root come and go.
MaintSpec == Init /\ [][MaintNext]_vars

(***************************************************************************)
(* Part I.  What a route is, in terms of the two directories.              *)
(***************************************************************************)
\* The container a published config file was rendered for.
RecordOwner(h) == FieldOf(sites_available[h], "id")

\* The proxy records of a container: config files, enabled or not, rendered for it.
RoutesOf(c) == { h \in DOMAIN sites_available : RecordOwner(h) = ShortId(c) }

HasRoute(c) == RoutesOf(c) # {}

\* Some file or link exists under the hostname.
Published(h) == h \in DOMAIN sites_available \/ h \in sites_enabled

\* The events `docker events` has printed for a container in a given status.
EmittedFor(status) ==
    CASE status = "none"    -> << >>
      [] status = "created" -> <<"create">>
      [] status = "running" -> <<"create", "start">>
      [] status = "stopped" -> <<"create", "start", "stop", "die">>
      [] OTHER              -> <<"create", "start", "die">>

\* The events of container c that wait in the pipe.
Unread(c) == SelectSeq(events, LAMBDA e : e[2] = c)

\* The event actions the watch loop has handled for c, in order, when it has
\* missed none: those printed less those unread.
Handled(c) == SubSeq(EmittedFor(container[c]), 1, Len(EmittedFor(container[c])) - Len(Unread(c)))

\* The watch loop has handled every event the runtime emitted for c.
Settled(c) == c \notin missed /\ Unread(c) = << >>

FullLifecycle == <<"create", "start", "stop", "die">>

\* A step taken by the `generate` command for container c and hostname h.
GenerateStep(c, h) ==
    /\ last'.op = "generate" /\ last'.cid = c /\ last'.host = h
    /\ UNCHANGED <<clock, container, events, watching, missed>>

\* A turn of the watch loop that handles event `action` of container c.
EventStep(action, c) ==
    /\ watching
    /\ events # << >>
    /\ Head(events) = <<action, c>>
    /\ events' = Tail(events)

\* A step taken by the `remove` command for hostname h.
RemoveStep(h) ==
    /\ last'.op = "remove" /\ last'.host = h
    /\ UNCHANGED <<clock, container, events, watching, missed>>

\* A step taken by the `init` command.
InitStep ==
    /\ last'.op = "init"
    /\ UNCHANGED <<clock, container, events, watching, missed>>

\* A step taken by the `sync` command.
SyncStep ==
    /\ last'.op = "sync"
    /\ UNCHANGED <<clock, container, events, watching, missed>>

(***************************************************************************)
(* Part I.  Claims about the script.                                       *)
(***************************************************************************)
\* C1: once the watch loop has handled create, start, stop and die of a
\* container, in that order, no config file and no enabling link exists for
\* a hostname published for that container.
C1_NoRouteAfterLifecycle ==
    \A c \in Cids :
        (Settled(c) /\ Handled(c) = FullLifecycle /\ last.op = "event" /\ last.cid = c)
            => RoutesOf(c) = {}

\* C2: once the watch loop has handled all events of a container, the
\* container has a published route exactly when it is running.
C2_RouteIffRunning ==
    \A c \in Cids : Settled(c) => (HasRoute(c) <=> container[c] = "running")

\* C3: a generate for container B under a hostname that is enabled for another
\* container A fails and leaves A's config file and link as they were.
C3_HostnameConflict ==
    [][ \A c \in Cids, h \in Hostnames :
          ( /\ GenerateStep(c, h)
            /\ h \in sites_enabled
            /\ h \in DOMAIN sites_available
            /\ RecordOwner(h) # ShortId(c) )
          => ( /\ last'.exit # 0
               /\ h \in sites_enabled'
               /\ h \in DOMAIN sites_available'
               /\ sites_available'[h] = sites_available[h] ) ]_vars

\* C6: when nginx -t rejects the configuration during a generate, the config
\* file and the link just written are gone again and the command fails.
C6_RollbackOnFailedValidation ==
    (last.op = "generate" /\ last.test = "failed")
        => ( /\ ~Published(last.host)
             /\ last.exit # 0 )

\* C7: after a sync, the published routes are those of the running
\* containers: no route is left for a container that is not running and
\* every running container has one.
C7_SyncReconciles ==
    [][ SyncStep => \A c \in Cids : HasRoute(c)' <=> (container'[c] = "running") ]_vars
\* C12: once the watch loop has handled the start event of a container, a
\* config file rendered for it exists under a challenge hostname, proxies to
\* the container's ip and port, is enabled, and that event ran one reload.
C12_StartPublishes ==
    (last.op = "event" /\ last.action = "start")
        => ( /\ \E h \in RoutesOf(last.cid) :
                    /\ h \in sites_enabled
                    /\ FieldOf(sites_available[h], "ip") = AddressOf(last.cid).ip
                    /\ FieldOf(sites_available[h], "port") = AddressOf(last.cid).port
             /\ last.reloads = 1 )

\* C14: a generate for the container, address and challenge name an existing
\* config file was rendered from writes the same text again.
C14_RenderTwiceSameText ==
    [][ \A c \in Cids, h \in Hostnames :
          ( /\ GenerateStep(c, h)
            /\ h \in DOMAIN sites_available
            /\ RecordOwner(h) = ShortId(c)
            /\ FieldOf(sites_available[h], "ip") = AddressOf(c).ip
            /\ FieldOf(sites_available[h], "port") = AddressOf(c).port )
          => sites_available'[h] = sites_available[h] ]_vars

\* C15: a remove for a hostname that has no config file and no link exits
\* nonzero and leaves both directories as they were.
C15_RemoveUnknownFails ==
    [][ \A h \in Hostnames :
          (RemoveStep(h) /\ ~Published(h))
              => ( /\ last'.exit # 0
                   /\ UNCHANGED <<sites_available, sites_enabled>> ) ]_vars

\* C16: a generate that exited zero rendered the config, enabled it, passed
\* nginx -t and reloaded nginx.
C16_GenerateZeroOnlyOnSuccess ==
    (last.op = "generate" /\ last.exit = 0)
        => ( /\ last.host \in DOMAIN sites_available
             /\ last.host \in sites_enabled
             /\ last.test = "ok"
             /\ last.reloads = 1 )

\* C17: an init leaves the template file with the fixed content and touches
\* no config file and no link; an init that follows an init changes nothing.
C17_InitIdempotent ==
    [][ InitStep
          => ( /\ template_file' = Template
               /\ UNCHANGED <<sites_available, sites_enabled>>
               /\ last.op = "init" => UNCHANGED vars ) ]_vars

\* init has run while a config file is published and enabled.
C17_InitKeepsRoutes ==
    /\ last.op = "init"
    /\ template_file = Template
    /\ \E h \in Hostnames : h \in DOMAIN sites_available /\ h \in sites_enabled

\* C18: a generate whose hostname holds a template-breaking character
\* leaves no config file and no link under that hostname.
C18_BreakingHostnameRejected ==
    (last.op = "generate" /\ \E name \in BreakingNames : last.host = HostnameOf(name))
        => ~Published(last.host)

\* C20: when the watch loop handles a stop or a die event of a container
\* that has a published route, the route is retracted by that turn.
C20_DieRetractsRoute ==
    [][ \A c \in Cids, action \in {"stop", "die"} :
          (EventStep(action, c) /\ HasRoute(c)) => ~HasRoute(c)' ]_vars

(***************************************************************************)
(* Part II.  Claims about the control plane.                               *)
(***************************************************************************)
\* A step that answered requestInstance(challenge_id, owner_id).
RequestStep(challenge_id, owner_id) ==
    /\ reply'.op = "requestInstance"
    /\ reply'.challenge_id = challenge_id
    /\ reply'.owner_id = owner_id

\* The runtime create calls a step issued.
CreateCalls == { i \in Iids : runtime[i] = "none" /\ runtime'[i] = "created" }

StoppingOrLater == {"stopping", "stopped", "error"}

\* A step of the TTL sweep.
SweepStep == reply'.op = "checkExpired"

\* The rows whose expires_at is earlier than the current time.
Overdue == { i \in Iids : HasRow(i) /\ registry[i].expires_at < now }

\* An instance that is stopping or later stays so until its row is purged.
NoWayBack ==
    \A i \in Iids :
        registry[i].state \in StoppingOrLater
            => registry'[i].state \in StoppingOrLater \cup {"free"}

\* C5 as stated: every instance whose expires_at is earlier than the current
\* time when the sweep runs is stopping or later once the sweep has run.
C5_ExpiredStoppingAfterSweep ==
    [][ SweepStep => \A i \in Overdue : registry'[i].state \in StoppingOrLater ]_vars

\* C5, amended: when the sweep reaches the container runtime, every instance
\* whose expires_at is earlier than the current time is stopping or later
\* (error for an instance that never left pending) once the sweep has run,
\* and stays so until its row is purged; a sweep that finds the runtime
\* unreachable defers its instances to the next cycle.
C5_ExpiredStoppingWhenRuntimeUp ==
    [][ /\ (SweepStep /\ reply'.res = "ok")
            => \A i \in Overdue : registry'[i].state \in StoppingOrLater
        /\ (SweepStep /\ reply'.res = "RuntimeUnavailable")
            => registry' = registry
        /\ NoWayBack ]_vars

\* A sweep has just marked an overdue running instance stopping.
C5_SweptStopping ==
    /\ reply.op = "checkExpired"
    /\ reply.res = "ok"
    /\ \E i \in Overdue : registry[i].state = "stopping" /\ runtime[i] = "stopping"
\* The edges an instance may take, written out.
GraphEdges ==
    { <<"pending", "running">>, <<"running", "stopping">>, <<"stopping", "stopped">> }
        \cup { <<from, "error">> : from \in InstanceStates }

\* The state a transition was asked for by the operation that just answered.
Requested(op) == IF op = "stopInstance" THEN "stopping" ELSE "stopped"

\* C13: every change of an instance's state is an edge of the graph
\* pending -> running -> stopping -> stopped or an edge into error; a
\* transition over any other pair of states answers InvalidTransition and
\* yields error, not the requested state; and an operation that answered
\* InvalidTransition left the instance it refused in error.
C13_OnlyAllowedEdges ==
    /\ \A from, to \in InstanceStates :
          IF <<from, to>> \in GraphEdges
          THEN TransitionResult(from, to) = "ok" /\ TransitionState(from, to) = to
          ELSE /\ TransitionResult(from, to) = "InvalidTransition"
               /\ TransitionState(from, to) = "error"
               /\ TransitionState(from, to) # to
    /\ [][ /\ \A i \in Iids :
                ( /\ registry[i].state \in InstanceStates
                  /\ registry'[i].state \in InstanceStates
                  /\ registry'[i].state # registry[i].state )
                    => <<registry[i].state, registry'[i].state>> \in GraphEdges
           /\ (reply'.op \in {"stopInstance", "die"} /\ reply'.res = "InvalidTransition")
                    => \E i \in Iids :
                          /\ <<registry[i].state, Requested(reply'.op)>> \notin GraphEdges
                          /\ registry'[i].state = "error" ]_vars

\* stopInstance on a pending instance was refused and the instance is in error.
C13_RefusedStop ==
    /\ reply.op = "stopInstance"
    /\ reply.res = "InvalidTransition"
    /\ \E i \in Iids : registry[i].state = "error" /\ runtime[i] = "stopping"

StopStep == reply'.op \in {"stopInstance", "checkExpired"}

\* What a stop step may do: mark rows stopping (or error, when the
\* transition is refused) and tell containers to stop; no row becomes
\* stopped or is purged, no container is taken for dead, no route changes.
OnlyMarksStopping ==
    /\ routes' = routes
    /\ \A i \in Iids :
          /\ registry'[i].state \in {registry[i].state, "stopping", "error"}
          /\ registry'[i].state # "stopped"
          /\ runtime'[i] \in {runtime[i], "stopping"}

\* A step that retracts the route of instance i or purges its row.
CleansUp(i) ==
    \/ i \in routes /\ i \notin routes'
    \/ HasRow(i) /\ registry'[i].state = "free"

InstanceOf(s) == registry[session[s].instance_id]

PumpsIdle(sess) == sess.inbound = "idle" /\ sess.outbound = "idle"
PumpsStopped(sess) == sess.inbound = "stopped" /\ sess.outbound = "stopped"

\* C8: a session becomes open only in a step that finds its instance
\* running; the upgrade of a connecting session whose instance is in any
\* other state ends the session with one SessionRejected error frame and the
\* socket never accepted; a rejected session never changes again, so neither
\* of its pumps is ever started.
C8_OpenOnlyIfRunning ==
    [][ \A s \in Sids :
          /\ (session[s].state # "open" /\ session'[s].state = "open")
                 => ( /\ session[s].state = "connecting"
                      /\ InstanceOf(s).state = "running" )
          /\ ( /\ session[s].state = "connecting"
               /\ InstanceOf(s).state # "running"
               /\ session'[s] # session[s] )
                 => ( /\ session'[s].state = "closed"
                      /\ session'[s].socket = "refused"
                      /\ session'[s].frame = "SessionRejected"
                      /\ PumpsIdle(session'[s]) )
          /\ session[s].socket = "refused"
                 => ( /\ session'[s] = session[s]
                      /\ PumpsIdle(session[s]) ) ]_vars

\* An upgrade against a pending instance has been rejected.
C8_RejectedWhilePending ==
    \E s \in Sids :
        /\ session[s].socket = "refused"
        /\ session[s].frame = "SessionRejected"
        /\ PumpsIdle(session[s])
        /\ InstanceOf(s).state = "pending"

\* C9: an open session whose instance is not running leaves open, with no
\* step of the client or of a pump needed for it; the step of the
\* instance-state watch takes it to closing with no pump left running.
C9_ClosingWhenInstanceLeavesRunning ==
    /\ \A s \in Sids :
          (session[s].state = "open" /\ InstanceOf(s).state # "running")
              ~> (session[s].state # "open")
    /\ [][ \A s \in Sids :
              ( /\ session[s].state = "open"
                /\ InstanceOf(s).state # "running"
                /\ session'[s] # session[s] )
                  => ( /\ session'[s].state = "closing"
                       /\ session'[s].inbound # "running"
                       /\ session'[s].outbound # "running" ) ]_vars

\* The watch has canceled both pumps of a session whose instance is stopping,
\* while the client did nothing.
C9_CanceledByWatch ==
    \E s \in Sids :
        /\ session[s].state = "closing"
        /\ session[s].inbound = "canceled"
        /\ session[s].outbound = "canceled"
        /\ InstanceOf(s).state = "stopping"

\* C10: a step that takes an open session out of open takes it to closing
\* with no pump left running; a closing session becomes closed, and a closed
\* session that was open has both pumps stopped and its socket closed.
C10_ClosingReachesClosed ==
    /\ [][ \A s \in Sids :
              (session[s].state = "open" /\ session'[s].state # "open")
                  => ( /\ session'[s].state = "closing"
                       /\ session'[s].inbound \in {"canceled", "stopped"}
                       /\ session'[s].outbound \in {"canceled", "stopped"} ) ]_vars
    /\ \A s \in Sids :
          (session[s].state = "closing")
              ~> ( /\ session[s].state = "closed"
                   /\ PumpsStopped(session[s])
                   /\ session[s].socket = "closed" )
    /\ [](\A s \in Sids :
             (session[s].state = "closed" /\ session[s].socket # "refused")
                 => (PumpsStopped(session[s]) /\ session[s].socket = "closed"))

\* A session whose pump stopped while its instance kept running was closed
\* at the end of the grace period.
C10_ClosedAfterGrace ==
    \E s \in Sids :
        /\ session[s].state = "closed"
        /\ session[s].socket = "closed"
        /\ PumpsStopped(session[s])
        /\ session[s].grace = GracePeriod
        /\ InstanceOf(s).state = "running"
(***************************************************************************)
(* Part IV.  Claims about the drawer and the inbound pump.                 *)
(***************************************************************************)
\* The positions of a sequence.
Positions(seq) == 1..Len(seq)

\* C11: on every socket, what the inbound pump did to the container is in
\* the order the client sent it; when a data frame has been written to stdin,
\* no resize frame sent before it is still unread, and a resize (the one
\* ws.onopen sends) was applied before it; and a keystroke frame still on
\* the wire has a resize ahead of it, on the wire or applied.
C11_ResizeBeforeData ==
    \A k \in SockIds :
        /\ \A i, j \in Positions(applied[k]) :
              i < j => applied[k][i].n < applied[k][j].n
        /\ \A j \in Positions(applied[k]) :
              applied[k][j].effect = "stdin"
                  => ( /\ \A w \in Positions(wire[k]) :
                             wire[k][w].payload = "resize" => wire[k][w].n > applied[k][j].n
                       /\ \E i \in Positions(applied[k]) :
                             i < j /\ applied[k][i].effect = "resize" )
        /\ \A w \in Positions(wire[k]) :
              wire[k][w].payload = "keys"
                  => ( \/ \E v \in Positions(wire[k]) :
                             v < w /\ wire[k][v].payload = "resize"
                       \/ \E i \in Positions(applied[k]) :
                             applied[k][i].effect = "resize" )

\* The initial resize, a window resize and then a keystroke reached the
\* container of one session, in that order.
C11_ResizesThenKeys ==
    \E k \in SockIds :
        /\ Len(applied[k]) = 3
        /\ applied[k][1].effect = "resize"
        /\ applied[k][2].effect = "resize"
        /\ applied[k][3].effect = "stdin"

\* A socket that is connecting or open.
Live(k) == socket[k].readyState \in {"connecting", "open"}

\* C26: a socket is created only by handleReconnect or by the opening of the
\* drawer, never by the close of a socket or any other callback, and the new
\* socket starts a session of its own: connecting, nothing sent on it and
\* nothing applied for it.
C26_NoReconnectOnItsOwn ==
    [][ \A k \in SockIds :
          (socket[k].readyState = "unused" /\ socket'[k].readyState # "unused")
              => ( /\ HandleReconnect \/ OpenDrawer
                   /\ socket'[k].readyState = "connecting"
                   /\ wsRef' = k
                   /\ wire'[k] = << >>
                   /\ applied'[k] = << >> ) ]_vars

\* A session that had reached the container ended, and a reconnect opened a
\* second one, on which only its own first resize has been sent.
C26_ReconnectedAfterClose ==
    /\ isOpen
    /\ wsRef # NoSocket
    /\ \E k \in SockIds \ {wsRef} :
          /\ socket[k].readyState = "closed"
          /\ applied[k] # << >>
    /\ socket[wsRef].readyState = "open"
    /\ applied[wsRef] = << >>
    /\ Len(wire[wsRef]) = 1

\* C27: isConnected is true exactly when the socket in wsRef is open.
C27_ConnectedIffCurrentOpen ==
    isConnected <=> (wsRef # NoSocket /\ socket[wsRef].readyState = "open")

\* C28: a keystroke is sent on one socket at most, the socket in wsRef, which
\* is open; the onData handlers of earlier sockets send nothing.
C28_KeystrokeOnceOnCurrent ==
    [][ \A k \in SockIds :
          ( /\ Len(wire'[k]) > Len(wire[k])
            /\ wire'[k][Len(wire'[k])].payload = "keys" )
              => ( /\ k = wsRef
                   /\ socket[k].readyState = "open"
                   /\ \A j \in SockIds \ {k} : wire'[j] = wire[j] ) ]_vars

\* After a reconnect on the same terminal two onData handlers are
\* registered, and a keystroke is on the wire of the current socket.
C28_KeystrokeAfterReconnect ==
    /\ wsRef # NoSocket
    /\ Cardinality(handlers) >= 2
    /\ \E i \in Positions(wire[wsRef]) : wire[wsRef][i].payload = "keys"
    /\ \A k \in SockIds \ {wsRef} : wire[k] = << >>

\* C29: at most one socket is connecting or open, and while the drawer is
\* closed wsRef is null and no socket is connecting or open (close() was
\* called on the one there was).
C29_OneLiveSocket ==
    /\ Cardinality({ k \in SockIds : Live(k) }) <= 1
    /\ ~isOpen => ( /\ wsRef = NoSocket
                    /\ \A k \in SockIds : ~Live(k) )

\* The drawer was closed on a socket a reconnect had opened: that socket is
\* closing, the one before it closed.
C29_ClosedWhileLive ==
    /\ ~isOpen
    /\ wsRef = NoSocket
    /\ \E k, j \in SockIds :
          /\ socket[k].readyState = "closed"
          /\ socket[j].readyState = "closing"

(***************************************************************************)
(* Part I, continued.  Events for containers the script knows nothing of.  *)
(***************************************************************************)
\* C24: an event for a container id that no published record names is
\* dropped: the config files and the enabling links stay as they are, no
\* reload runs, and the watch loop goes on to the next event.
C24_UnknownEventDropped ==
    [][ \A c \in Cids, action \in {"start", "create", "stop", "die"} :
          (EventStep(action, c) /\ ~HasRoute(c))
              => ( /\ sites_available' = sites_available
                   /\ sites_enabled' = sites_enabled
                   /\ last'.op = "event"
                   /\ last'.reloads = 0
                   /\ watching' ) ]_vars

\* The loop handled an event for a container without a record while another
\* container's route was published, and the next event is waiting.
C24_DroppedBesideRoute ==
    /\ last.op = "event"
    /\ ~HasRoute(last.cid)
    /\ \E c \in Cids : HasRoute(c) /\ RoutesOf(c) \subseteq sites_enabled
    /\ watching
    /\ events # << >>

\* C25: a started container whose address the watcher could not resolve is
\* eventually removed (its instance having gone to error); no route is
\* published for it and the resolution is not tried again and again.
C25_UnresolvedEventuallyRemoved ==
    \A c \in Cids :
        ( /\ last.op = "event" /\ last.action = "start" /\ last.cid = c
          /\ GetContainerInfo(c) = ""
          /\ container[c] = "running" )
            ~> ( /\ container[c] # "running"
                 /\ ~HasRoute(c) )

(***************************************************************************)
(* Part V.  Claims about calls that overlap.                               *)
(***************************************************************************)
\* A process that has a file write of its command still ahead of it.
Writing(p) == proc[p].pc \in {"write", "link", "rmfile", "rmlink"}

\* Every call issued for hostname h has ended.
Completed(h) ==
    \A p \in Procs : proc[p].pc # "idle" => HostnameOf(proc[p].name) # h

\* C22: the publish and retract calls of one debounce window trigger at most
\* one reload of the proxy, and that reload runs only when the file writes of
\* every call of the window are done.
C22_OneReloadAfterAllWrites ==
    [][ nreloads' > nreloads
            => ( /\ nreloads = 0
                 /\ \A p \in Procs : ~Writing(p) ) ]_vars

\* C23: when the calls issued for a hostname have all ended, its route (the
\* config file and the enabling link) is there exactly when the call issued
\* last was a publish.
C23_LastCallWins ==
    \A h \in Hostnames :
        (Completed(h) /\ lastIssued[h] # "none")
            => /\ (lastIssued[h] = "generate")
                      => (h \in DOMAIN sites_available /\ h \in sites_enabled)
               /\ (lastIssued[h] = "remove")
                      => (h \notin DOMAIN sites_available /\ h \notin sites_enabled)

(***************************************************************************)
(* Part VI.  Claims about maintenance-mode.sh.                             *)
(***************************************************************************)
\* C30: `on` run as root ends in one of two ways: the flag file exists, nginx
\* was reloaded and the status is 0; or nginx was not running or its reload
\* failed, the flag file does not exist and the status is 1.
C30_OnFlagAndReloadOrNeither ==
    (mlast.op = "on" /\ mlast.root)
        => \/ ( /\ mlast.flag
                /\ mlast.reload = "ok"
                /\ mlast.exit = 0 )
           \/ ( /\ ~mlast.active \/ mlast.reload = "failed"
                /\ ~mlast.flag
                /\ mlast.exit = 1 )
====
